---- MODULE Spec2Model ----
(***************************************************************************)
(* A model of src/src/common.rs of rust-keylime: the configuration         *)
(* resolver (config_file_get, config_get, config_get_env and the wrappers  *)
(* bound to named settings), the symmetric key type SymmKey and the        *)
(* ownership transfer chownroot.                                           *)
(*                                                                         *)
(* The process environment and the file system are the state the resolver  *)
(* reads; every function of the source is an operator computed as the code *)
(* computes it, and every call is one action that records what the call    *)
(* returned and which files it loaded.                                     *)
(***************************************************************************)
EXTENDS Integers, Sequences, FiniteSets, TLC

VARIABLES
    env,        \* the process environment: variable name -> value
    fs,         \* the file system: path -> configuration file state
    nchanges,   \* how many times the environment or a file was changed
    last,       \* the resolver call just made (NoCall after a change)
    earlier,    \* a resolver call was made before the latest change
    sk,         \* the SymmKey operation just made
    euid,       \* effective user id of the process
    owner,      \* path -> owning (uid, gid), for the paths that exist
    ch          \* the chownroot call just made

vars == <<env, fs, nchanges, last, earlier, sk, euid, owner, ch>>

(***************************************************************************)
(* Bounds of the model.                                                    *)
(***************************************************************************)
\* changes of the environment and of the files in one behaviour
MaxChanges == 2
\* bytes by which a vector handed to from_vec is shorter or longer than a key
MaxExtra == 1
\* bytes that follow the path's buffer in memory before a NUL is met
MaxGarbage == 1

(***************************************************************************)
(* Constants of the program.                                               *)
(***************************************************************************)
DEFAULT_CONFIG == "/etc/keylime.conf"
KEY_LEN == 32

\* u32 is kept in two 16-bit limbs: value = hi * LIMB + lo
LIMB == 65536

(***************************************************************************)
(* The environment.  A variable is unset, set to text that is valid        *)
(* Unicode, or set to bytes that are not (possible on Unix).               *)
(***************************************************************************)
CONFIG_VAR == "KEYLIME_CONFIG"
CONTACT_PORT_VAR == "KEYLIME_AGENT_CONTACT_PORT"
SettingVars == {"REVOCATION_IP", "REVOCATION_PORT", "CLOUDAGENT_IP",
                "CLOUDAGENT_PORT", "REGISTRAR_IP", "REGISTRAR_PORT",
                "KEYLIME_AGENT_CONTACT_IP", CONTACT_PORT_VAR}
EnvNames == SettingVars \cup {CONFIG_VAR}

TESTING_CONF == "/tmp/testing.conf"
Paths == {DEFAULT_CONFIG, TESTING_CONF}

Unset == [set |-> FALSE, utf8 |-> TRUE, text |-> ""]
SetTo(t) == [set |-> TRUE, utf8 |-> TRUE, text |-> t]
\* set to the bytes 0xFF 0xFE, which are no UTF-8 text
NonUnicode == [set |-> TRUE, utf8 |-> FALSE, text |-> "\\xFF\\xFE"]

\* the texts the model sets a variable to
EnvTexts(n) ==
    IF n = CONFIG_VAR THEN {"", TESTING_CONF}
    ELSE IF n = CONTACT_PORT_VAR THEN {"", "abc", "+80", "4294967296"}
    ELSE IF n \in {"REVOCATION_PORT", "KEYLIME_AGENT_CONTACT_IP"} THEN {"", "9090"}
    ELSE {"9090"}

(***************************************************************************)
(* Configuration files.  A file is absent, malformed (the parser rejects   *)
(* it) or an ini document: the sections it has and its (section, key,      *)
(* value) entries, one value per key per section.                          *)
(***************************************************************************)
Sections == {"general", "cloud_agent"}
Absent == [kind |-> "absent", secs |-> {}, kv |-> {}]
Malformed == [kind |-> "malformed", secs |-> {}, kv |-> {}]
IniFile(secs, kv) == [kind |-> "ini", secs |-> secs, kv |-> kv]

\* the (section, key) pairs the model writes: those of the eight settings and
\* one key in the wrong section
SettingPairs ==
    {<<"general", "receive_revocation_ip">>,
     <<"general", "receive_revocation_port">>,
     <<"cloud_agent", "cloudagent_ip">>,
     <<"cloud_agent", "cloudagent_port">>,
     <<"cloud_agent", "registrar_ip">>,
     <<"cloud_agent", "registrar_port">>,
     <<"cloud_agent", "agent_contact_ip">>,
     <<"cloud_agent", "agent_contact_port">>}
WritablePairs == SettingPairs \cup {<<"general", "agent_contact_port">>}

FileTexts(s, k) ==
    IF s = "cloud_agent" /\ k = "agent_contact_port"
    THEN {"abc", "", "4294967295"}
    ELSE {"8080"}

(***************************************************************************)
(* Results.  One record shape for every return value.                      *)
(***************************************************************************)
NoLimbs == [hi |-> 0, lo |-> 0]
Ok(s) == [tag |-> "Ok", val |-> s, num |-> NoLimbs, kind |-> "", msg |-> <<>>]
Err(kind, msg) ==
    [tag |-> "Err", val |-> "", num |-> NoLimbs, kind |-> kind, msg |-> msg]
Some(s) == [tag |-> "Some", val |-> s, num |-> NoLimbs, kind |-> "", msg |-> <<>>]
None == [tag |-> "None", val |-> "", num |-> NoLimbs, kind |-> "", msg |-> <<>>]
OkSome(n) == [tag |-> "OkSome", val |-> "", num |-> n, kind |-> "", msg |-> <<>>]
OkNone == [tag |-> "OkNone", val |-> "", num |-> NoLimbs, kind |-> "", msg |-> <<>>]
NoResult == [tag |-> "NoResult", val |-> "", num |-> NoLimbs, kind |-> "", msg |-> <<>>]

\* what a function returns together with the files it loaded on the way
Ret(res, loaded) == [res |-> res, loaded |-> loaded]

(***************************************************************************)
(* std::env::var: Ok(text) for a variable set to valid Unicode, an error   *)
(* (NotPresent, NotUnicode) otherwise.                                     *)
(***************************************************************************)
env_var(e, n) ==
    IF ~e[n].set THEN Err("NotPresent", <<>>)
    ELSE IF ~e[n].utf8 THEN Err("NotUnicode", <<>>)
    ELSE Ok(e[n].text)

(***************************************************************************)
(* config_file_get (common.rs 81-93)                                       *)
(***************************************************************************)
config_file_get_accepts_empty(e) ==
    LET v == env_var(e, CONFIG_VAR)
    IN  IF v.tag = "Ok" THEN v.val ELSE DEFAULT_CONFIG

config_file_get(e) ==
    LET v == env_var(e, CONFIG_VAR)
    IN  IF v.tag = "Ok"
        THEN IF v.val # "" THEN v.val ELSE DEFAULT_CONFIG
        ELSE DEFAULT_CONFIG

(***************************************************************************)
(* config_get (common.rs 162-189)                                          *)
(***************************************************************************)
\* Ini::load_from_file
load_from_file(f, path) ==
    IF path \in DOMAIN f /\ f[path].kind = "ini"
    THEN [ok |-> TRUE, conf |-> f[path]]
    ELSE [ok |-> FALSE, conf |-> Absent]

\* the lookup in the loaded document (common.rs 165-188)
ini_lookup(conf, section, key, conf_name) ==
    IF section \notin conf.secs
    THEN Err("Configuration",
             <<"Cannot find section called ", section, " in file ", conf_name>>)
    ELSE LET hits == {t \in conf.kv : t[1] = section /\ t[2] = key}
         IN  IF hits = {}
             THEN Err("Configuration",
                      <<"Cannot find key ", key, " in fine ", conf_name>>)
             ELSE Ok((CHOOSE t \in hits : TRUE)[3])

\* the environment and the files when the process starts
StartEnv == [n \in EnvNames |-> Unset]
StartFs == [p \in Paths |-> Absent]

\* a resolver that keeps what it loaded when the process started
config_get_cached(e, f, section, key) ==
    LET conf_name == config_file_get(StartEnv)
        l == load_from_file(StartFs, conf_name)
    IN  IF ~l.ok THEN Ret(Err("Ini", <<conf_name>>), <<conf_name>>)
        ELSE Ret(ini_lookup(l.conf, section, key, conf_name), <<conf_name>>)

\* a resolver that reports a missing key without naming it
config_get_anonymous(e, f, section, key) ==
    LET conf_name == config_file_get(e)
        l == load_from_file(f, conf_name)
        r == ini_lookup(l.conf, section, key, conf_name)
    IN  IF ~l.ok THEN Ret(Err("Ini", <<conf_name>>), <<conf_name>>)
        ELSE IF r.tag = "Err"
             THEN Ret(Err("Configuration", <<"Cannot find it in ", conf_name>>),
                      <<conf_name>>)
             ELSE Ret(r, <<conf_name>>)

config_get(e, f, section, key) ==
    LET conf_name == config_file_get(e)
        l == load_from_file(f, conf_name)
    IN  IF ~l.ok
        THEN Ret(Err("Ini", <<conf_name>>), <<conf_name>>)
        ELSE Ret(ini_lookup(l.conf, section, key, conf_name), <<conf_name>>)

(***************************************************************************)
(* config_get_env (common.rs 198-214)                                      *)
(***************************************************************************)
\* a resolver that asks the file first
config_get_env_file_first(e, f, section, key, envn) ==
    LET r == config_get(e, f, section, key)
        v == env_var(e, envn)
    IN  IF r.res.tag = "Ok" THEN r
        ELSE IF v.tag = "Ok" /\ v.val # "" THEN Ret(Ok(v.val), r.loaded)
        ELSE r

config_get_env(e, f, section, key, envn) ==
    LET v == env_var(e, envn)
    IN  IF v.tag = "Ok"
        THEN IF v.val # ""
             THEN Ret(Ok(v.val), <<>>)
             ELSE config_get(e, f, section, key)
        ELSE config_get(e, f, section, key)

(***************************************************************************)
(* The wrappers bound to named settings (common.rs 95-123)                 *)
(***************************************************************************)
revocation_ip_get(e, f) ==
    config_get_env(e, f, "general", "receive_revocation_ip", "REVOCATION_IP")

\* a wrapper bound to its neighbour's environment variable
revocation_port_get_wrong_var(e, f) ==
    config_get_env(e, f, "general", "receive_revocation_port", "REVOCATION_IP")

revocation_port_get(e, f) ==
    config_get_env(e, f, "general", "receive_revocation_port", "REVOCATION_PORT")

cloudagent_ip_get(e, f) ==
    config_get_env(e, f, "cloud_agent", "cloudagent_ip", "CLOUDAGENT_IP")

cloudagent_port_get(e, f) ==
    config_get_env(e, f, "cloud_agent", "cloudagent_port", "CLOUDAGENT_PORT")

registrar_ip_get(e, f) ==
    config_get_env(e, f, "cloud_agent", "registrar_ip", "REGISTRAR_IP")

registrar_port_get(e, f) ==
    config_get_env(e, f, "cloud_agent", "registrar_port", "REGISTRAR_PORT")

(***************************************************************************)
(* cloudagent_contact_ip_get (common.rs 126-135)                           *)
(***************************************************************************)
\* a wrapper that hands the error on
cloudagent_contact_ip_get_propagating(e, f) ==
    LET r == config_get_env(e, f, "cloud_agent", "agent_contact_ip",
                            "KEYLIME_AGENT_CONTACT_IP")
    IN  IF r.res.tag = "Ok" THEN Ret(Some(r.res.val), r.loaded) ELSE r

cloudagent_contact_ip_get(e, f) ==
    LET r == config_get_env(e, f, "cloud_agent", "agent_contact_ip",
                            "KEYLIME_AGENT_CONTACT_IP")
    IN  IF r.res.tag = "Ok"
        THEN Ret(Some(r.res.val), r.loaded)
        ELSE Ret(None, r.loaded)

(***************************************************************************)
(* str::parse::<u32> (common.rs 144): an optional "+", then decimal        *)
(* digits, the value accumulated with checked multiplication and addition  *)
(* in 32 bits.                                                             *)
(***************************************************************************)
\* the characters of the texts of the model
Chars(s) ==
    CASE s = "" -> <<>>
      [] s = "abc" -> <<"a", "b", "c">>
      [] s = "8080" -> <<"8", "0", "8", "0">>
      [] s = "9090" -> <<"9", "0", "9", "0">>
      [] s = "+80" -> <<"+", "8", "0">>
      [] s = "4294967295" -> <<"4", "2", "9", "4", "9", "6", "7", "2", "9", "5">>
      [] s = "4294967296" -> <<"4", "2", "9", "4", "9", "6", "7", "2", "9", "6">>
      [] s = TESTING_CONF -> <<"/", "t", "m", "p", "/", "t", "e", "s", "t", "i",
                               "n", "g", ".", "c", "o", "n", "f">>

Digits == {"0", "1", "2", "3", "4", "5", "6", "7", "8", "9"}

\* char::to_digit(10)
to_digit(c) ==
    CASE c = "0" -> 0 [] c = "1" -> 1 [] c = "2" -> 2 [] c = "3" -> 3
      [] c = "4" -> 4 [] c = "5" -> 5 [] c = "6" -> 6 [] c = "7" -> 7
      [] c = "8" -> 8 [] c = "9" -> 9

\* result * 10 + x in 32 bits; ok is FALSE when it does not fit
checked_mul_add(n, x) ==
    LET lo == n.lo * 10 + x
        hi == n.hi * 10 + (lo \div LIMB)
    IN  [ok |-> hi < LIMB, n |-> [hi |-> hi % LIMB, lo |-> lo % LIMB]]

RECURSIVE parse_digits(_, _)
parse_digits(cs, acc) ==
    IF cs = <<>> THEN [ok |-> TRUE, n |-> acc]
    ELSE IF Head(cs) \notin Digits THEN [ok |-> FALSE, n |-> NoLimbs]
    ELSE LET r == checked_mul_add(acc, to_digit(Head(cs)))
         IN  IF ~r.ok THEN [ok |-> FALSE, n |-> NoLimbs]
             ELSE parse_digits(Tail(cs), r.n)

parse_u32(cs) ==
    IF cs = <<>> THEN [ok |-> FALSE, n |-> NoLimbs]
    ELSE IF Head(cs) \in {"+", "-"} /\ Len(cs) = 1 THEN [ok |-> FALSE, n |-> NoLimbs]
    ELSE IF Head(cs) = "+" THEN parse_digits(Tail(cs), NoLimbs)
    ELSE parse_digits(cs, NoLimbs)

(***************************************************************************)
(* cloudagent_contact_port_get (common.rs 138-153)                         *)
(***************************************************************************)
\* a wrapper that treats a value that does not parse as no value
cloudagent_contact_port_get_lenient(e, f) ==
    LET r == config_get_env(e, f, "cloud_agent", "agent_contact_port",
                            CONTACT_PORT_VAR)
        p == parse_u32(Chars(r.res.val))
    IN  IF r.res.tag = "Ok" /\ p.ok THEN Ret(OkSome(p.n), r.loaded)
        ELSE Ret(OkNone, r.loaded)

cloudagent_contact_port_get(e, f) ==
    LET r == config_get_env(e, f, "cloud_agent", "agent_contact_port",
                            CONTACT_PORT_VAR)
        port_str == r.res.val
        p == parse_u32(Chars(port_str))
    IN  IF r.res.tag = "Ok"
        THEN IF p.ok
             THEN Ret(OkSome(p.n), r.loaded)
             ELSE Ret(Err("Configuration",
                          <<"Parse ", port_str, " to a port number.">>),
                      r.loaded)
        ELSE Ret(OkNone, r.loaded)

(***************************************************************************)
(* The record of a resolver call.                                          *)
(***************************************************************************)
Call(op, section, key, envn, r) ==
    [op |-> op, section |-> section, key |-> key, envn |-> envn,
     result |-> r.res, loaded |-> r.loaded]
NoCall == Call("none", "", "", "", Ret(NoResult, <<>>))

\* a call returns: it is recorded, and nothing it read is written
Return(c) ==
    /\ last' = c
    /\ UNCHANGED <<env, fs, nchanges, earlier, sk, euid, owner, ch>>

\* the sections and keys the generic calls are made with
CallPairs ==
    {<<"general", "receive_revocation_port">>,
     <<"cloud_agent", "registrar_ip">>,
     <<"cloud_agent", "agent_contact_port">>,
     <<"general", "agent_contact_port">>,
     <<"cloud_agent", "uuid">>,
     <<"tpm", "uuid">>}
CallTriples ==
    {<<"general", "receive_revocation_port", "REVOCATION_PORT">>,
     <<"cloud_agent", "agent_contact_port", CONTACT_PORT_VAR>>,
     <<"general", "agent_contact_port", CONTACT_PORT_VAR>>,
     <<"tpm", "uuid", "REGISTRAR_IP">>}

CallConfigFileGet ==
    Return(Call("config_file_get", "", "", "", Ret(Ok(config_file_get(env)), <<>>)))

CallConfigGet ==
    \E c \in CallPairs :
        Return(Call("config_get", c[1], c[2], "", config_get(env, fs, c[1], c[2])))

CallConfigGetEnv ==
    \E t \in CallTriples :
        Return(Call("config_get_env", t[1], t[2], t[3],
                    config_get_env(env, fs, t[1], t[2], t[3])))

CallRevocationIpGet ==
    Return(Call("revocation_ip_get", "", "", "", revocation_ip_get(env, fs)))
CallRevocationPortGet ==
    Return(Call("revocation_port_get", "", "", "", revocation_port_get(env, fs)))
CallCloudagentIpGet ==
    Return(Call("cloudagent_ip_get", "", "", "", cloudagent_ip_get(env, fs)))
CallCloudagentPortGet ==
    Return(Call("cloudagent_port_get", "", "", "", cloudagent_port_get(env, fs)))
CallRegistrarIpGet ==
    Return(Call("registrar_ip_get", "", "", "", registrar_ip_get(env, fs)))
CallRegistrarPortGet ==
    Return(Call("registrar_port_get", "", "", "", registrar_port_get(env, fs)))
CallCloudagentContactIpGet ==
    Return(Call("cloudagent_contact_ip_get", "", "", "",
                cloudagent_contact_ip_get(env, fs)))
CallCloudagentContactPortGet ==
    Return(Call("cloudagent_contact_port_get", "", "", "",
                cloudagent_contact_port_get(env, fs)))

(***************************************************************************)
(* The surroundings: the environment and the files change between calls.   *)
(***************************************************************************)
Changed ==
    /\ nchanges' = nchanges + 1
    /\ last' = NoCall
    /\ earlier' = (earlier \/ last # NoCall)
    /\ UNCHANGED <<sk, euid, owner, ch>>

\* env::set_var
SetEnv ==
    /\ nchanges < MaxChanges
    /\ \E n \in EnvNames : \E t \in EnvTexts(n) :
        /\ env[n] # SetTo(t)
        /\ env' = [env EXCEPT ![n] = SetTo(t)]
        /\ UNCHANGED fs
        /\ Changed

\* a variable set, outside the program, to bytes that are not Unicode
SetEnvNonUnicode ==
    /\ nchanges < MaxChanges
    /\ \E n \in EnvNames :
        /\ env[n] # NonUnicode
        /\ env' = [env EXCEPT ![n] = NonUnicode]
        /\ UNCHANGED fs
        /\ Changed

\* env::remove_var
UnsetEnv ==
    /\ nchanges < MaxChanges
    /\ \E n \in EnvNames :
        /\ env[n].set
        /\ env' = [env EXCEPT ![n] = Unset]
        /\ UNCHANGED fs
        /\ Changed

RemoveFile ==
    /\ nchanges < MaxChanges
    /\ \E p \in Paths :
        /\ fs[p] # Absent
        /\ fs' = [fs EXCEPT ![p] = Absent]
        /\ UNCHANGED env
        /\ Changed

\* the file is overwritten with text the parser rejects
CorruptFile ==
    /\ nchanges < MaxChanges
    /\ \E p \in Paths :
        /\ fs[p] # Malformed
        /\ fs' = [fs EXCEPT ![p] = Malformed]
        /\ UNCHANGED env
        /\ Changed

\* the file is written with one more (empty) section
AddSection ==
    /\ nchanges < MaxChanges
    /\ \E p \in Paths, s \in Sections :
        /\ s \notin fs[p].secs
        /\ fs' = [fs EXCEPT ![p] = IniFile(fs[p].secs \cup {s}, fs[p].kv)]
        /\ UNCHANGED env
        /\ Changed

\* the file is written with key = value in a section
SetKey ==
    /\ nchanges < MaxChanges
    /\ \E p \in Paths, sk0 \in WritablePairs : \E v \in FileTexts(sk0[1], sk0[2]) :
        LET others == {t \in fs[p].kv : ~(t[1] = sk0[1] /\ t[2] = sk0[2])}
            new == IniFile(fs[p].secs \cup {sk0[1]},
                           others \cup {<<sk0[1], sk0[2], v>>})
        IN  /\ fs[p] # new
            /\ fs' = [fs EXCEPT ![p] = new]
            /\ UNCHANGED env
            /\ Changed

(***************************************************************************)
(* SymmKey (common.rs 43-72)                                               *)
(***************************************************************************)
\* [0u8; KEY_LEN]
Zeroes == [i \in 1..KEY_LEN |-> 0]

\* impl Default for SymmKey
SymmKey_default == [bytes |-> Zeroes]

\* SymmKey::is_empty
is_empty(key) == key.bytes = Zeroes

\* a constructor that copies what fits and leaves the rest zero
from_vec_truncating(v) ==
    [panic |-> FALSE,
     key |-> [bytes |-> [i \in 1..KEY_LEN |-> IF i <= Len(v) THEN v[i] ELSE 0]]]

\* SymmKey::from_vec: copy_from_slice panics unless the two lengths are equal
from_vec(v) ==
    IF Len(v) # KEY_LEN
    THEN [panic |-> TRUE, key |-> [bytes |-> <<>>]]
    ELSE [panic |-> FALSE, key |-> [bytes |-> [i \in 1..KEY_LEN |-> v[i]]]]

NoKey == [op |-> "none", v |-> <<>>, outcome |-> "none", bytes |-> <<>>,
          asked |-> FALSE, empty |-> FALSE]

\* the vectors handed to from_vec: all zero, one non-zero byte, or a ramp
VecLens == {0} \cup ((KEY_LEN - MaxExtra)..(KEY_LEN + MaxExtra))
Vecs ==
    {[i \in 1..n |-> 0] : n \in VecLens}
    \cup {[i \in 1..n |-> IF i = p THEN b ELSE 0] :
            n \in VecLens, p \in 1..(KEY_LEN + MaxExtra), b \in {1, 255}}
    \cup {[i \in 1..n |-> i] : n \in VecLens}

KeyDefault ==
    /\ sk' = [op |-> "default", v |-> <<>>, outcome |-> "key",
              bytes |-> SymmKey_default.bytes, asked |-> FALSE, empty |-> FALSE]
    /\ UNCHANGED <<env, fs, nchanges, last, earlier, euid, owner, ch>>

KeyFromVec ==
    \E v \in Vecs :
        LET r == from_vec(v)
        IN  /\ sk' = [op |-> "from_vec", v |-> v,
                      outcome |-> IF r.panic THEN "panic" ELSE "key",
                      bytes |-> r.key.bytes, asked |-> FALSE, empty |-> FALSE]
            /\ UNCHANGED <<env, fs, nchanges, last, earlier, euid, owner, ch>>

KeyIsEmpty ==
    /\ sk.outcome = "key"
    /\ ~sk.asked
    /\ sk' = [sk EXCEPT !.asked = TRUE, !.empty = is_empty([bytes |-> sk.bytes])]
    /\ UNCHANGED <<env, fs, nchanges, last, earlier, euid, owner, ch>>

(***************************************************************************)
(* chownroot (common.rs 226-243)                                           *)
(*                                                                         *)
(* A path is a sequence of characters.  The pointer handed to chown is the *)
(* String's buffer, which has no terminating NUL: the system call reads    *)
(* the path's bytes and then whatever follows the buffer in memory, up to  *)
(* the first NUL.                                                          *)
(***************************************************************************)
NUL == "\\0"
ROOT == [uid |-> 0, gid |-> 0]
USER == [uid |-> 1000, gid |-> 1000]

FileNames == {<<"a">>, <<"b">>, <<"a", "b">>}
ChownPaths == FileNames \cup {<<"a", NUL, "b">>}

RECURSIVE SeqsUpTo(_)
SeqsUpTo(n) ==
    IF n = 0 THEN {<<>>}
    ELSE LET shorter == SeqsUpTo(n - 1)
         IN  shorter \cup {Append(g, c) : g \in shorter, c \in {"a", "b"}}
Garbage == SeqsUpTo(MaxGarbage)

NoFiles == [p \in {} |-> ROOT]

\* the C string at a pointer: the bytes before the first NUL
RECURSIVE c_str(_)
c_str(bytes) ==
    IF bytes = <<>> \/ Head(bytes) = NUL THEN <<>>
    ELSE <<Head(bytes)>> \o c_str(Tail(bytes))

\* libc::chown: 0 and the new owner, or -1
sys_chown(caller, own, target, uid, gid) ==
    IF target \notin DOMAIN own THEN [rc |-> -1, own |-> own]
    ELSE IF caller # 0 /\ own[target] # [uid |-> uid, gid |-> gid]
    THEN [rc |-> -1, own |-> own]
    ELSE [rc |-> 0, own |-> [own EXCEPT ![target] = [uid |-> uid, gid |-> gid]]]

ChownRet(tag, kind, ret, target, nchown, own) ==
    [tag |-> tag, kind |-> kind, ret |-> ret, target |-> target,
     geteuid_calls |-> 1, chown_calls |-> nchown, own |-> own]

\* an ownership transfer that leaves the refusal to the kernel
chownroot_unchecked(caller, own, path, after) ==
    LET target == c_str(path \o after \o <<NUL>>)
        r == sys_chown(caller, own, target, 0, 0)
    IN  IF r.rc # 0
        THEN ChownRet("Err", "Permission", <<>>, target, 1, r.own)
        ELSE ChownRet("Ok", "", path, target, 1, r.own)

chownroot(caller, own, path, after) ==
    IF caller # 0
    THEN ChownRet("Err", "Permission", <<>>, <<>>, 0, own)
    ELSE LET target == c_str(path \o after \o <<NUL>>)
             r == sys_chown(caller, own, target, 0, 0)
         IN  IF r.rc # 0
             THEN ChownRet("Err", "Permission", <<>>, target, 1, r.own)
             ELSE ChownRet("Ok", "", path, target, 1, r.own)

NoChown == [op |-> "none", path |-> <<>>, caller |-> 0, tag |-> "none",
            kind |-> "", ret |-> <<>>, target |-> <<>>, geteuid_calls |-> 0,
            chown_calls |-> 0, before |-> NoFiles]

CallChownroot ==
    \E path \in ChownPaths, after \in Garbage :
        LET r == chownroot(euid, owner, path, after)
        IN  /\ owner' = r.own
            /\ ch' = [op |-> "chownroot", path |-> path, caller |-> euid,
                      tag |-> r.tag, kind |-> r.kind, ret |-> r.ret,
                      target |-> r.target, geteuid_calls |-> r.geteuid_calls,
                      chown_calls |-> r.chown_calls, before |-> owner]
            /\ UNCHANGED <<env, fs, nchanges, last, earlier, sk, euid>>

\* another process creates a file
CreateFile ==
    \E p \in FileNames :
        /\ p \notin DOMAIN owner
        /\ owner' = [q \in DOMAIN owner \cup {p} |->
                        IF q = p THEN USER ELSE owner[q]]
        /\ ch' = NoChown
        /\ UNCHANGED <<env, fs, nchanges, last, earlier, sk, euid>>

\* another process deletes a file
DeleteFile ==
    \E p \in DOMAIN owner :
        /\ owner' = [q \in DOMAIN owner \ {p} |-> owner[q]]
        /\ ch' = NoChown
        /\ UNCHANGED <<env, fs, nchanges, last, earlier, sk, euid>>

(***************************************************************************)
(* The configuration resolver and its surroundings.                        *)
(***************************************************************************)
InitResolver ==
    /\ env = StartEnv
    /\ fs = StartFs
    /\ nchanges = 0
    /\ last = NoCall
    /\ earlier = FALSE

Init ==
    /\ InitResolver
    /\ sk = NoKey
    /\ euid = 0
    /\ owner = NoFiles
    /\ ch = NoChown

Next ==
    \/ CallConfigFileGet
    \/ CallConfigGet
    \/ CallConfigGetEnv
    \/ CallRevocationIpGet
    \/ CallRevocationPortGet
    \/ CallCloudagentIpGet
    \/ CallCloudagentPortGet
    \/ CallRegistrarIpGet
    \/ CallRegistrarPortGet
    \/ CallCloudagentContactIpGet
    \/ CallCloudagentContactPortGet
    \/ SetEnv
    \/ SetEnvNonUnicode
    \/ UnsetEnv
    \/ RemoveFile
    \/ CorruptFile
    \/ AddSection
    \/ SetKey

Spec == Init /\ [][Next]_vars

(***************************************************************************)
(* The symmetric key type.                                                 *)
(***************************************************************************)
InitKey ==
    /\ InitResolver
    /\ sk = NoKey
    /\ euid = 0
    /\ owner = NoFiles
    /\ ch = NoChown

NextKey ==
    \/ KeyDefault
    \/ KeyFromVec
    \/ KeyIsEmpty

SpecKey == InitKey /\ [][NextKey]_vars

(***************************************************************************)
(* The ownership transfer, by a superuser or by an ordinary user.          *)
(***************************************************************************)
InitChown ==
    /\ InitResolver
    /\ sk = NoKey
    /\ euid \in {0, 1000}
    /\ owner = NoFiles
    /\ ch = NoChown

NextChown ==
    \/ CallChownroot
    \/ CreateFile
    \/ DeleteFile

SpecChown == InitChown /\ [][NextChown]_vars

(***************************************************************************)
(* What the claims speak of, stated on the environment and the files       *)
(* themselves.                                                             *)
(***************************************************************************)
Range(q) == {q[i] : i \in 1..Len(q)}

\* the variable is set and its value is not empty
SetNonEmpty(e, n) == e[n].set /\ e[n].text # ""
\* the variable is set to non-empty text that is valid Unicode
Usable(e, n) == e[n].set /\ e[n].utf8 /\ e[n].text # ""

SelectedPath(e) ==
    IF Usable(e, "KEYLIME_CONFIG") THEN e["KEYLIME_CONFIG"].text
    ELSE "/etc/keylime.conf"
SelectedFile(e, f) == f[SelectedPath(e)]
Stored(e, f, section, key) ==
    {t[3] : t \in {x \in SelectedFile(e, f).kv : x[1] = section /\ x[2] = key}}

\* r is what the file selected in (e, f) holds for (section, key)
FromFile(r, e, f, section, key) ==
    IF SelectedFile(e, f).kind # "ini" THEN r.tag = "Err"
    ELSE IF section \notin SelectedFile(e, f).secs
    THEN r.tag = "Err" /\ r.kind = "Configuration" /\ section \in Range(r.msg)
    ELSE IF Stored(e, f, section, key) = {}
    THEN r.tag = "Err" /\ r.kind = "Configuration" /\ key \in Range(r.msg)
    ELSE r.tag = "Ok" /\ Stored(e, f, section, key) = {r.val}

\* r is what (e, f) hold for the setting: the environment first, then the file
Resolved(r, e, f, section, key, envn) ==
    IF Usable(e, envn) THEN r = Ok(e[envn].text)
    ELSE FromFile(r, e, f, section, key)

\* the strings the setting resolves to in (e, f): one, or none
Resolution(e, f, section, key, envn) ==
    IF Usable(e, envn) THEN {e[envn].text}
    ELSE IF SelectedFile(e, f).kind = "ini" /\ section \in SelectedFile(e, f).secs
    THEN Stored(e, f, section, key)
    ELSE {}

(***************************************************************************)
(* C1, as claimed: config_get_env returns the value of the environment     *)
(* variable whenever it is set and non-empty, and loads no file.  It fails *)
(* for a variable set to bytes that are not Unicode.                       *)
(***************************************************************************)
C1_AsClaimed ==
    (last.op = "config_get_env" /\ SetNonEmpty(env, last.envn))
        => (last.result = Ok(env[last.envn].text) /\ last.loaded = <<>>)

(***************************************************************************)
(* C1, amended: config_get_env returns the value of the environment        *)
(* variable whenever it is set to non-empty valid Unicode, whatever the    *)
(* file is, and then loads no file.                                        *)
(***************************************************************************)
C1_EnvWins ==
    (last.op = "config_get_env" /\ Usable(env, last.envn))
        => (last.result = Ok(env[last.envn].text) /\ last.loaded = <<>>)

\* the variable won over a file that holds another value for the setting
C1_Witness ==
    /\ last.op = "config_get_env"
    /\ Usable(env, last.envn)
    /\ \E v \in Stored(env, fs, last.section, last.key) : v # env[last.envn].text
    /\ last.result = Ok(env[last.envn].text)

(***************************************************************************)
(* C2: chownroot called by a process that is not the superuser issues no   *)
(* chown, leaves every owner as it was and fails with Permission.          *)
(***************************************************************************)
C2_UnprivilegedRefused ==
    (ch.op = "chownroot" /\ ch.caller # 0)
        => /\ ch.chown_calls = 0
           /\ owner = ch.before
           /\ ch.tag = "Err" /\ ch.kind = "Permission"

\* an ordinary user asked for a file that exists
C2_Witness ==
    /\ ch.op = "chownroot"
    /\ ch.caller # 0
    /\ ch.path \in DOMAIN owner
    /\ ch.tag = "Err"

(***************************************************************************)
(* C3: when the selected file loads, config_get returns the stored value   *)
(* of a (section, key) that is present, and fails with a Configuration     *)
(* error that names the section when the section is absent, and one that   *)
(* names the key when the key is absent from the section.                  *)
(***************************************************************************)
C3_GetExactOrNamed ==
    (last.op = "config_get" /\ SelectedFile(env, fs).kind = "ini")
        => /\ FromFile(last.result, env, fs, last.section, last.key)
           /\ last.result.tag \in {"Ok", "Err"}

\* a key that is absent from a section that exists
C3_Witness ==
    /\ last.op = "config_get"
    /\ SelectedFile(env, fs).kind = "ini"
    /\ last.section \in SelectedFile(env, fs).secs
    /\ Stored(env, fs, last.section, last.key) = {}
    /\ last.key \in Range(last.result.msg)

(***************************************************************************)
(* C4: from_vec of a vector of KEY_LEN bytes yields a key with those       *)
(* bytes, which is_empty exactly when they are all zero (the default key); *)
(* from_vec of any other length panics and yields no key.                  *)
(***************************************************************************)
C4_KeyFromVec ==
    /\ sk.op = "from_vec" /\ Len(sk.v) = 32
        => /\ sk.outcome = "key"
           /\ Len(sk.bytes) = 32
           /\ \A i \in 1..32 : sk.bytes[i] = sk.v[i]
           /\ sk.asked => (sk.empty <=> \A i \in 1..32 : sk.v[i] = 0)
    /\ sk.op = "from_vec" /\ Len(sk.v) # 32
        => sk.outcome = "panic" /\ sk.bytes = <<>>
    /\ sk.op = "default"
        => /\ Len(sk.bytes) = 32
           /\ \A i \in 1..32 : sk.bytes[i] = 0
           /\ sk.asked => sk.empty

\* a key whose only non-zero byte is the last one was asked and is not empty
C4_Witness ==
    /\ sk.op = "from_vec"
    /\ Len(sk.v) = 32
    /\ sk.v[32] # 0
    /\ \A i \in 1..31 : sk.v[i] = 0
    /\ sk.asked
    /\ ~sk.empty

(***************************************************************************)
(* C5, as claimed: config_file_get returns the value of KEYLIME_CONFIG for *)
(* every non-empty value, the default path when it is unset or empty, and  *)
(* never fails.  It fails for a value that is not Unicode.                 *)
(***************************************************************************)
C5_AsClaimed ==
    last.op = "config_file_get"
        => /\ last.result.tag = "Ok"
           /\ SetNonEmpty(env, "KEYLIME_CONFIG")
                => last.result.val = env["KEYLIME_CONFIG"].text
           /\ ~SetNonEmpty(env, "KEYLIME_CONFIG")
                => last.result.val = "/etc/keylime.conf"

(***************************************************************************)
(* C5, amended: config_file_get returns the value of KEYLIME_CONFIG when   *)
(* it is non-empty valid Unicode, the default path when it is unset, empty *)
(* or not Unicode, and never fails.                                        *)
(***************************************************************************)
C5_ConfigPath ==
    last.op = "config_file_get"
        => /\ last.result.tag = "Ok"
           /\ Usable(env, "KEYLIME_CONFIG")
                => last.result.val = env["KEYLIME_CONFIG"].text
           /\ ~Usable(env, "KEYLIME_CONFIG")
                => last.result.val = "/etc/keylime.conf"

\* the path named in the environment was returned
C5_Witness ==
    /\ last.op = "config_file_get"
    /\ env["KEYLIME_CONFIG"] = SetTo("/tmp/testing.conf")
    /\ last.result = Ok("/tmp/testing.conf")

(***************************************************************************)
(* C6: cloudagent_contact_port_get returns Ok(None) when the setting       *)
(* resolves to nothing, a Configuration error when it resolves to a string *)
(* that is no unsigned 32-bit number, and Ok(Some(n)) when it resolves to  *)
(* the number n.                                                           *)
(***************************************************************************)
\* the decimal digits of s, without one leading "+"
Numeral(s) ==
    LET cs == Chars(s)
    IN  IF cs # <<>> /\ cs[1] = "+" THEN SubSeq(cs, 2, Len(cs)) ELSE cs

\* q is before or equal to r, digit by digit
DigitwiseLeq(q, r) ==
    \/ q = r
    \/ \E i \in 1..Len(q) :
        /\ \A j \in 1..(i - 1) : q[j] = r[j]
        /\ to_digit(q[i]) < to_digit(r[i])

\* s is a decimal numeral of at most 4294967295 (no leading zeros in the model)
IsU32Text(s) ==
    LET ds == Numeral(s)
    IN  /\ ds # <<>>
        /\ \A i \in 1..Len(ds) : ds[i] \in Digits
        /\ \/ Len(ds) < 10
           \/ Len(ds) = 10 /\ DigitwiseLeq(ds, Chars("4294967295"))

\* the numbers the texts of the model denote
U32Of(s) ==
    CASE s = "8080" -> [hi |-> 0, lo |-> 8080]
      [] s = "9090" -> [hi |-> 0, lo |-> 9090]
      [] s = "+80" -> [hi |-> 0, lo |-> 80]
      [] s = "4294967295" -> [hi |-> 65535, lo |-> 65535]

ContactPortResolution ==
    Resolution(env, fs, "cloud_agent", "agent_contact_port",
               "KEYLIME_AGENT_CONTACT_PORT")

C6_ContactPort ==
    last.op = "cloudagent_contact_port_get"
        => /\ ContactPortResolution = {} => last.result = OkNone
           /\ \A s \in ContactPortResolution :
                IF IsU32Text(s)
                THEN last.result = OkSome(U32Of(s))
                ELSE /\ last.result.tag = "Err"
                     /\ last.result.kind = "Configuration"
                     /\ s \in Range(last.result.msg)
           /\ (/\ ~SetNonEmpty(env, "KEYLIME_AGENT_CONTACT_PORT")
               /\ Stored(env, fs, "cloud_agent", "agent_contact_port") = {})
                => last.result = OkNone

\* "abc" in the environment is a parse error
C6_Witness ==
    /\ last.op = "cloudagent_contact_port_get"
    /\ env["KEYLIME_AGENT_CONTACT_PORT"] = SetTo("abc")
    /\ last.result.tag = "Err"
    /\ last.result.kind = "Configuration"

(***************************************************************************)
(* C7: cloudagent_contact_ip_get never reports an error: it returns the    *)
(* string the setting resolves to, and None when it resolves to nothing,   *)
(* whatever the cause.                                                     *)
(***************************************************************************)
ContactIpResolution ==
    Resolution(env, fs, "cloud_agent", "agent_contact_ip",
               "KEYLIME_AGENT_CONTACT_IP")

C7_ContactIp ==
    last.op = "cloudagent_contact_ip_get"
        => /\ last.result.tag \in {"Some", "None"}
           /\ ContactIpResolution = {} => last.result = None
           /\ \A s \in ContactIpResolution : last.result = Some(s)

\* a file that does not parse gives None
C7_Witness ==
    /\ last.op = "cloudagent_contact_ip_get"
    /\ SelectedFile(env, fs).kind = "malformed"
    /\ last.result = None

(***************************************************************************)
(* C8: each of the six plain wrappers returns what config_get_env returns  *)
(* for its own (section, key, variable); revocation_port_get returns       *)
(* "8080" from the file when REVOCATION_PORT is unset or empty, and "9090" *)
(* when REVOCATION_PORT is 9090.                                           *)
(***************************************************************************)
WrapperTriple(op) ==
    CASE op = "revocation_ip_get" ->
            <<"general", "receive_revocation_ip", "REVOCATION_IP">>
      [] op = "revocation_port_get" ->
            <<"general", "receive_revocation_port", "REVOCATION_PORT">>
      [] op = "cloudagent_ip_get" ->
            <<"cloud_agent", "cloudagent_ip", "CLOUDAGENT_IP">>
      [] op = "cloudagent_port_get" ->
            <<"cloud_agent", "cloudagent_port", "CLOUDAGENT_PORT">>
      [] op = "registrar_ip_get" ->
            <<"cloud_agent", "registrar_ip", "REGISTRAR_IP">>
      [] op = "registrar_port_get" ->
            <<"cloud_agent", "registrar_port", "REGISTRAR_PORT">>
PlainWrappers ==
    {"revocation_ip_get", "revocation_port_get", "cloudagent_ip_get",
     "cloudagent_port_get", "registrar_ip_get", "registrar_port_get"}

C8_WrappersBound ==
    /\ last.op \in PlainWrappers
        => LET t == WrapperTriple(last.op)
           IN  /\ Resolved(last.result, env, fs, t[1], t[2], t[3])
               /\ last.result = config_get_env(env, fs, t[1], t[2], t[3]).res
    /\ (/\ last.op = "revocation_port_get"
        /\ ~SetNonEmpty(env, "REVOCATION_PORT")
        /\ Stored(env, fs, "general", "receive_revocation_port") = {"8080"})
        => last.result = Ok("8080")
    /\ (/\ last.op = "revocation_port_get"
        /\ env["REVOCATION_PORT"] = SetTo("9090"))
        => last.result = Ok("9090")

\* REVOCATION_PORT=9090 over a file that says 8080
C8_Witness ==
    /\ last.op = "revocation_port_get"
    /\ env["REVOCATION_PORT"] = SetTo("9090")
    /\ Stored(env, fs, "general", "receive_revocation_port") = {"8080"}
    /\ last.result = Ok("9090")

(***************************************************************************)
(* C9: every call of config_get and config_get_env returns what the        *)
(* environment and the files hold when it is made, and no call changes the *)
(* environment or a file.                                                  *)
(***************************************************************************)
C9_NeverCached ==
    [][nchanges' = nchanges
        => /\ env' = env
           /\ fs' = fs
           /\ last'.op = "config_get"
                => FromFile(last'.result, env, fs, last'.section, last'.key)
           /\ last'.op = "config_get_env"
                => Resolved(last'.result, env, fs, last'.section, last'.key,
                            last'.envn)]_vars

\* after an earlier call and a change, a call returns a value
C9_Witness ==
    /\ earlier
    /\ nchanges >= 1
    /\ last.op \in {"config_get", "config_get_env"}
    /\ last.result.tag = "Ok"

(***************************************************************************)
(* C10, as claimed: chownroot called by the superuser checks the           *)
(* privilege once and issues one chown; when it returns the path, the path *)
(* is owned by uid 0 and gid 0, and when it fails it fails with Permission *)
(* and no owner has changed.  It fails because chown is handed a pointer   *)
(* to bytes that no NUL terminates.                                        *)
(***************************************************************************)
C10_AsClaimed ==
    (ch.op = "chownroot" /\ ch.caller = 0)
        => /\ ch.geteuid_calls = 1
           /\ ch.chown_calls = 1
           /\ ch.tag = "Ok"
                => /\ ch.ret = ch.path
                   /\ ch.path \in DOMAIN owner
                   /\ owner[ch.path] = ROOT
           /\ ch.tag = "Err"
                => ch.kind = "Permission" /\ owner = ch.before
           /\ ch.tag \in {"Ok", "Err"}

====
